---- MODULE Spec2Model ----
(***************************************************************************)
(* The editing core of the wind editor: Row and Document                   *)
(* (crates/view/src/document.rs), Position (position.rs), Boundaries       *)
(* (boundaries.rs), the Editor with its four movement operations and its   *)
(* save (editor.rs), and the App that runs the editor in a terminal: run,  *)
(* event_loop, the event handlers, start_terminal and end_terminal         *)
(* (crates/core/src/app.rs).                                               *)
(*                                                                         *)
(* A String is modelled as the sequence of its chars.  Two chars stand for *)
(* the classes that matter to the code: "a" (U+0061, one UTF-8 byte, a     *)
(* cluster of its own) and "m" (U+0301 COMBINING ACUTE ACCENT, two UTF-8   *)
(* bytes, Grapheme_Extend: it joins the cluster of the char before it).    *)
(* A panic of the process is the variable panicked; no handler runs after. *)
(***************************************************************************)
EXTENDS Integers, Sequences, FiniteSets

\* ---------------------------------------------------------------- bounds
MaxRows == 3
MaxChars == 3
MaxWidth == 2
MaxHeight == 2

MaxEventRows == 2

MaxEventChars == 1

MaxOffset == 2

\* ----------------------------------------------------------------- chars
Chars == {"a", "m"}

NewLine == "\n"

utf8_len(ch) == IF ch = "a" THEN 1 ELSE 2

IsExtend(ch) == ch = "m"

Min(a, b) == IF a <= b THEN a ELSE b

\* usize is 64 bits wide; the model keeps 16 of them, far above every value
\* the bounds let a position, a length or an offset take.
UsizeModulus == 2^16

\* a - b of a build without overflow checks.
wrapping_sub(a, b) == (a - b) % UsizeModulus

saturating_sub(a, b) == IF a >= b THEN a - b ELSE 0

RECURSIVE byte_len(_)
byte_len(s) == IF s = <<>> THEN 0 ELSE utf8_len(Head(s)) + byte_len(Tail(s))

\* The byte offset at which the i-th char (1-based) of s starts; i = Len(s)+1
\* gives the byte length.
byte_offset(s, i) == byte_len(SubSeq(s, 1, i - 1))

is_char_boundary(s, idx) == \E i \in 1..(Len(s) + 1) : byte_offset(s, i) = idx

\* The 1-based index of the char that starts at byte idx (Len(s)+1 at the end).
char_at_byte(s, idx) == CHOOSE i \in 1..(Len(s) + 1) : byte_offset(s, i) = idx

\* Extended grapheme clusters: a boundary lies before every char that is not
\* Grapheme_Extend, and at the start of the text.
cluster_starts(s) == {i \in 1..Len(s) : i = 1 \/ ~IsExtend(s[i])}

graphemes_count(s) == Cardinality(cluster_starts(s))

\* The index of the first char of the cluster with 0-based index k, or
\* Len(s)+1 when there is no such cluster.
cluster_start(s, k) ==
    IF k >= graphemes_count(s) THEN Len(s) + 1
    ELSE CHOOSE i \in cluster_starts(s) :
             Cardinality({j \in cluster_starts(s) : j < i}) = k

graphemes_take(s, n) == SubSeq(s, 1, cluster_start(s, n) - 1)

graphemes_skip(s, n) == SubSeq(s, cluster_start(s, n), Len(s))

\* The cluster with 0-based index k, as a sequence of chars.
grapheme(s, k) == SubSeq(s, cluster_start(s, k), cluster_start(s, k + 1) - 1)

\* String::insert(idx, ch): panics unless idx is a char boundary of s.
string_insert_ok(s, idx) == is_char_boundary(s, idx)

string_insert(s, idx, ch) ==
    LET i == char_at_byte(s, idx)
    IN  SubSeq(s, 1, i - 1) \o <<ch>> \o SubSeq(s, i, Len(s))

\* String::remove(idx): panics when idx >= len or idx is no char boundary.
string_remove_ok(s, idx) == idx < byte_len(s) /\ is_char_boundary(s, idx)

string_remove(s, idx) ==
    LET i == char_at_byte(s, idx)
    IN  SubSeq(s, 1, i - 1) \o SubSeq(s, i + 1, Len(s))

\* ------------------------------------------------------------------- Row
\* update_len counting chars instead of clusters.
update_len_chars(row) == [row EXCEPT !.len = Len(row.content)]

update_len(row) == [row EXCEPT !.len = graphemes_count(row.content)]

Row_from(value) == update_len([content |-> value, len |-> 0])

Row_default == [content |-> <<>>, len |-> 0]

\* split cutting at the char index instead of the cluster index.
split_chars(row, at) ==
    [self |-> update_len([row EXCEPT !.content = SubSeq(row.content, 1, at)]),
     new  |-> Row_from(SubSeq(row.content, at + 1, Len(row.content)))]

\* Row::split: self keeps the first `at` clusters, the rest is returned.
split(row, at) ==
    LET start == graphemes_take(row.content, at)
        mid   == graphemes_skip(row.content, at)
    IN  [self |-> update_len([row EXCEPT !.content = start]),
         new  |-> Row_from(mid)]

\* -------------------------------------------------------------- Document
InsertAt(seq, i, x) == SubSeq(seq, 1, i - 1) \o <<x>> \o SubSeq(seq, i, Len(seq))

RemoveAt(seq, i) == SubSeq(seq, 1, i - 1) \o SubSeq(seq, i + 1, Len(seq))

\* Rows are indexed from 0 in the code; rows[i] is doc.rows[i + 1] here.
row_len(doc, index) ==
    IF index + 1 \in DOMAIN doc.rows THEN doc.rows[index + 1].len ELSE 0

\* A file on disk is the sequence of its lines; `given` tells whether a path
\* was passed, `exists` whether it names a file.
open(file) ==
    [path     |-> IF file.given THEN "Some" ELSE "None",
     rows     |-> IF file.given /\ file.exists
                  THEN [i \in 1..Len(file.lines) |-> Row_from(file.lines[i])]
                  ELSE <<Row_default>>,
     modified |-> FALSE]

\* Document operations give [ok, doc]: ok = FALSE is a panic.
insert_new_line(doc, at) ==
    IF at.row + 1 \notin DOMAIN doc.rows
    THEN [ok |-> FALSE, doc |-> [doc EXCEPT !.modified = TRUE]]
    ELSE LET s == split(doc.rows[at.row + 1], at.column)
             rows1 == [doc.rows EXCEPT ![at.row + 1] = s.self]
         IN  [ok  |-> TRUE,
              doc |-> [doc EXCEPT !.modified = TRUE,
                                  !.rows = InsertAt(rows1, at.row + 2, s.new)]]

insert(doc, at, ch) ==
    IF ch = NewLine THEN insert_new_line(doc, at)
    ELSE IF at.row + 1 \notin DOMAIN doc.rows
              \/ ~string_insert_ok(doc.rows[at.row + 1].content, at.column)
    THEN [ok |-> FALSE, doc |-> [doc EXCEPT !.modified = TRUE]]
    ELSE LET row == doc.rows[at.row + 1]
             row1 == update_len(
                 [row EXCEPT !.content = string_insert(row.content, at.column, ch)])
         IN  [ok  |-> TRUE,
              doc |-> [doc EXCEPT !.modified = TRUE, !.rows[at.row + 1] = row1]]

\* merge_rows chaining the two rows in the wrong order.
merge_rows_reversed(row, next_row) ==
    update_len([row EXCEPT !.content = next_row.content \o row.content])

\* The merge of delete's first branch: the clusters of row, then those of
\* next_row, collected into row's content; the length is recomputed.
merge_rows(row, next_row) ==
    update_len([row EXCEPT !.content = row.content \o next_row.content])

delete(doc, at) ==
    IF Len(doc.rows) = 0
    THEN \* rows.len() - 1 overflows; a wrapped value reaches rows.remove(1)
         [ok |-> FALSE, doc |-> [doc EXCEPT !.modified = TRUE]]
    ELSE IF at.column = row_len(doc, at.row) /\ at.row < Len(doc.rows) - 1
    THEN LET next_row == doc.rows[at.row + 2]
             row1 == merge_rows(doc.rows[at.row + 1], next_row)
         IN  [ok  |-> TRUE,
              doc |-> [doc EXCEPT !.modified = TRUE,
                          !.rows = [RemoveAt(doc.rows, at.row + 2)
                                        EXCEPT ![at.row + 1] = row1]]]
    ELSE IF at.row + 1 \notin DOMAIN doc.rows
              \/ ~string_remove_ok(doc.rows[at.row + 1].content, at.column)
    THEN [ok |-> FALSE, doc |-> [doc EXCEPT !.modified = TRUE]]
    ELSE LET row == doc.rows[at.row + 1]
             row1 == update_len(
                 [row EXCEPT !.content = string_remove(row.content, at.column)])
         IN  [ok  |-> TRUE,
              doc |-> [doc EXCEPT !.modified = TRUE, !.rows[at.row + 1] = row1]]

\* ---------------------------------------------------------------- Editor
Position_default == [row |-> 0, column |-> 0, history |-> [row |-> 0, column |-> 0]]

\* Editor::new with EditorMode defaulting to Insert.
Editor_new_insert(file) ==
    [document      |-> open(file),
     position      |-> Position_default,
     scroll_offset |-> Position_default,
     status        |-> "None",
     mode          |-> "Insert"]

Editor_new(file) ==
    [document      |-> open(file),
     position      |-> Position_default,
     scroll_offset |-> Position_default,
     status        |-> "None",
     mode          |-> "Normal"]

\* sticky_column clamping to the last cluster instead of the row end.
sticky_column_short(ed, row) ==
    Min(ed.position.history.column, saturating_sub(row_len(ed.document, row), 1))

\* The column after a vertical move onto `row`: the sticky column, clamped to
\* the length of the row.
sticky_column(ed, row) ==
    Min(ed.position.history.column, row_len(ed.document, row))

\* The horizontal scroll adjustment shared by move_up and move_down.
scroll_column_vertical(column, scroll_column, width) ==
    IF column < scroll_column THEN 0
    ELSE IF column >= scroll_column + width THEN column - width + 1
    ELSE scroll_column

\* move_up that also clears the status message.
move_up_clears_status(ed, b, offset) ==
    IF ed.position.row > 0
    THEN LET srow == IF ed.position.row <= ed.scroll_offset.row
                     THEN saturating_sub(ed.scroll_offset.row, offset)
                     ELSE ed.scroll_offset.row
             row == wrapping_sub(ed.position.row, offset)
             column == sticky_column(ed, row)
             scol == scroll_column_vertical(
                         column, ed.scroll_offset.column, b.width)
         IN  [ok |-> offset <= ed.position.row,
              ed |-> [ed EXCEPT !.position.row = row,
                                !.position.column = column,
                                !.scroll_offset.row = srow,
                                !.scroll_offset.column = scol,
                                !.status = "None"]]
    ELSE [ok |-> TRUE, ed |-> ed]

\* Movement operations give [ok, ed]: ok = FALSE is an arithmetic overflow of
\* an unsigned subtraction (offset larger than the value it is taken from),
\* which the arrow keys, with offset 1, never cause.  A build with overflow
\* checks panics there; a build without them goes on with ed, in which the
\* subtraction has wrapped.
move_up(ed, b, offset) ==
    IF ed.position.row > 0
    THEN LET srow == IF ed.position.row <= ed.scroll_offset.row
                     THEN saturating_sub(ed.scroll_offset.row, offset)
                     ELSE ed.scroll_offset.row
             row == wrapping_sub(ed.position.row, offset)
             column == sticky_column(ed, row)
             scol == scroll_column_vertical(
                         column, ed.scroll_offset.column, b.width)
         IN  [ok |-> offset <= ed.position.row,
              ed |-> [ed EXCEPT !.position.row = row,
                                !.position.column = column,
                                !.scroll_offset.row = srow,
                                !.scroll_offset.column = scol]]
    ELSE [ok |-> TRUE, ed |-> ed]

\* move_down that never advances the vertical scroll offset.
move_down_no_scroll(ed, b, offset) ==
    IF ed.position.row + offset < Len(ed.document.rows)
    THEN LET row == ed.position.row + offset
             column == sticky_column(ed, row)
             scol == scroll_column_vertical(
                         column, ed.scroll_offset.column, b.width)
         IN  [ok |-> offset <= ed.scroll_offset.row + b.height,
              ed |-> [ed EXCEPT !.position.row = row,
                                !.position.column = column,
                                !.scroll_offset.column = scol]]
    ELSE [ok |-> TRUE, ed |-> ed]

move_down(ed, b, offset) ==
    IF ed.position.row + offset < Len(ed.document.rows)
    THEN LET srow == IF ed.position.row
                          >= wrapping_sub(ed.scroll_offset.row + b.height, offset)
                     THEN ed.scroll_offset.row + offset
                     ELSE ed.scroll_offset.row
             row == ed.position.row + offset
             column == sticky_column(ed, row)
             scol == scroll_column_vertical(
                         column, ed.scroll_offset.column, b.width)
         IN  [ok |-> offset <= ed.scroll_offset.row + b.height,
              ed |-> [ed EXCEPT !.position.row = row,
                                !.position.column = column,
                                !.scroll_offset.row = srow,
                                !.scroll_offset.column = scol]]
    ELSE [ok |-> TRUE, ed |-> ed]

move_left(ed, b, offset) ==
    IF ed.position.column > 0
    THEN LET column == saturating_sub(ed.position.column, offset)
             scol == IF column < ed.scroll_offset.column
                     THEN saturating_sub(column, b.width)
                     ELSE ed.scroll_offset.column
         IN  [ok |-> TRUE,
              ed |-> [ed EXCEPT !.position.column = column,
                                !.position.history.column = column,
                                !.scroll_offset.column = scol]]
    ELSE IF offset # 0
    THEN LET srow == IF ed.position.row = ed.scroll_offset.row
                        /\ ed.scroll_offset.row > 0
                     THEN ed.scroll_offset.row - 1
                     ELSE ed.scroll_offset.row
         IN  IF ed.position.row > 0
             THEN LET row == ed.position.row - 1
                      column == row_len(ed.document, row)
                  IN  IF column >= ed.scroll_offset.column + b.width
                      THEN [ok |-> offset <= column + b.width,
                            ed |-> [ed EXCEPT
                                !.position.row = row,
                                !.position.column = column,
                                !.position.history.column = column,
                                !.scroll_offset.row = srow,
                                !.scroll_offset.column =
                                    wrapping_sub(column + b.width, offset)]]
                      ELSE [ok |-> TRUE,
                            ed |-> [ed EXCEPT
                                !.position.row = row,
                                !.position.column = column,
                                !.position.history.column = column,
                                !.scroll_offset.row = srow]]
             ELSE [ok |-> TRUE, ed |-> [ed EXCEPT !.scroll_offset.row = srow]]
    ELSE [ok |-> TRUE, ed |-> ed]

\* move_right whose wrap onto the next row keeps the sticky column.
move_right_scrolls_at_end(ed, b, offset) ==
    LET current_row_length == row_len(ed.document, ed.position.row)
    IN  IF ed.position.column < current_row_length
        THEN LET column == ed.position.column + offset
                 scol == IF column >= ed.scroll_offset.column + b.width
                         THEN ed.scroll_offset.column + offset
                         ELSE ed.scroll_offset.column
             IN  [ok |-> TRUE,
                  ed |-> [ed EXCEPT !.position.column = column,
                                    !.position.history.column = column,
                                    !.scroll_offset.column = scol]]
        ELSE IF offset # 0
        THEN LET srow == IF ed.position.row >= saturating_sub(
                                  ed.scroll_offset.row + b.height, offset)
                         THEN ed.scroll_offset.row + 1
                         ELSE ed.scroll_offset.row
             IN  IF ed.position.row + 1
                        <= saturating_sub(Len(ed.document.rows), 1)
                 THEN [ok |-> TRUE,
                       ed |-> [ed EXCEPT !.position.row = ed.position.row + 1,
                                         !.position.column = 0,
                                         !.position.history.column = 0,
                                         !.scroll_offset.row = srow,
                                         !.scroll_offset.column = 0]]
                 ELSE [ok |-> TRUE, ed |-> [ed EXCEPT !.scroll_offset.row = srow]]
        ELSE [ok |-> TRUE, ed |-> ed]

move_right_sticky_kept(ed, b, offset) ==
    LET current_row_length == row_len(ed.document, ed.position.row)
    IN  IF ed.position.column < current_row_length
        THEN LET column == ed.position.column + offset
                 scol == IF column >= ed.scroll_offset.column + b.width
                         THEN ed.scroll_offset.column + offset
                         ELSE ed.scroll_offset.column
             IN  [ok |-> TRUE,
                  ed |-> [ed EXCEPT !.position.column = column,
                                    !.position.history.column = column,
                                    !.scroll_offset.column = scol]]
        ELSE IF offset # 0
        THEN LET srow == IF ed.position.row >= saturating_sub(
                                  ed.scroll_offset.row + b.height, offset)
                            /\ ed.scroll_offset.row + b.height
                                   < Len(ed.document.rows)
                         THEN ed.scroll_offset.row + 1
                         ELSE ed.scroll_offset.row
             IN  IF ed.position.row + 1
                        <= saturating_sub(Len(ed.document.rows), 1)
                 THEN [ok |-> TRUE,
                       ed |-> [ed EXCEPT !.position.row = ed.position.row + 1,
                                         !.position.column = 0,
                                         !.scroll_offset.row = srow,
                                         !.scroll_offset.column = 0]]
                 ELSE [ok |-> TRUE, ed |-> [ed EXCEPT !.scroll_offset.row = srow]]
        ELSE [ok |-> TRUE, ed |-> ed]

move_right(ed, b, offset) ==
    LET current_row_length == row_len(ed.document, ed.position.row)
    IN  IF ed.position.column < current_row_length
        THEN LET column == ed.position.column + offset
                 scol == IF column >= ed.scroll_offset.column + b.width
                         THEN ed.scroll_offset.column + offset
                         ELSE ed.scroll_offset.column
             IN  [ok |-> TRUE,
                  ed |-> [ed EXCEPT !.position.column = column,
                                    !.position.history.column = column,
                                    !.scroll_offset.column = scol]]
        ELSE IF offset # 0
        THEN LET srow == IF ed.position.row >= saturating_sub(
                                  ed.scroll_offset.row + b.height, offset)
                            /\ ed.scroll_offset.row + b.height
                                   < Len(ed.document.rows)
                         THEN ed.scroll_offset.row + 1
                         ELSE ed.scroll_offset.row
             IN  IF ed.position.row + 1
                        <= saturating_sub(Len(ed.document.rows), 1)
                 THEN [ok |-> TRUE,
                       ed |-> [ed EXCEPT !.position.row = ed.position.row + 1,
                                         !.position.column = 0,
                                         !.position.history.column = 0,
                                         !.scroll_offset.row = srow,
                                         !.scroll_offset.column = 0]]
                 ELSE [ok |-> TRUE, ed |-> [ed EXCEPT !.scroll_offset.row = srow]]
        ELSE [ok |-> TRUE, ed |-> ed]

\* ---------------------------------------------------------- state machine
\* last observes the Document operation applied most recently by DocInsert or
\* DocDelete: its name, its position and char, and the document before it.
\* app is the App around the editor: where run() stands (pc), what it returned,
\* the terminal modes it has set, its message, the size its terminal reports,
\* and what has been seen of it: the size of the latest resize event, the
\* event handled last, what the loop did last, the teardown steps tried.
VARIABLES editor, boundaries, panicked, last, app

vars == <<editor, boundaries, panicked, last, app>>

RECURSIVE total_chars(_)
total_chars(lines) ==
    IF lines = <<>> THEN 0 ELSE Len(Head(lines)) + total_chars(Tail(lines))

Strings == UNION {[1..n -> Chars] : n \in 0..MaxChars}

\* The contents a file can have within the bounds, the file with no line
\* (zero bytes) included.
FileLines ==
    {l \in UNION {[1..k -> Strings] : k \in 0..MaxRows} : total_chars(l) <= MaxChars}

\* Document::open's inputs: no path, a path that names no file, a file.
Files ==
    {[given |-> FALSE, exists |-> FALSE, lines |-> <<>>],
     [given |-> TRUE, exists |-> FALSE, lines |-> <<>>]}
    \cup {[given |-> TRUE, exists |-> TRUE, lines |-> l] : l \in FileLines}

BoundariesSet == [width : 1..MaxWidth, height : 1..MaxHeight]

doc_chars(doc) == total_chars([i \in DOMAIN doc.rows |-> doc.rows[i].content])

\* The text area of a terminal of the given size: the first part of a
\* vertical split into 97% and 3%, at full width.
text_area(size) ==
    [width |-> size.width, height |-> (size.height * 97 + 50) \div 100]

\* No resize event has been handled yet.
NoSize == [width |-> 0, height |-> 0]

App_new(size) ==
    [pc               |-> "start_terminal",
     result           |-> "none",
     alternate_screen |-> FALSE,
     raw_mode         |-> FALSE,
     message          |-> "None",
     size             |-> size,
     resized          |-> NoSize,
     event            |-> "none",
     did              |-> "none",
     tried_disable    |-> FALSE,
     tried_leave      |-> FALSE]

Init ==
    /\ \E file \in Files : editor = Editor_new(file)
    /\ \E size \in BoundariesSet :
           /\ app = App_new(size)
           /\ boundaries = text_area(size)
    /\ panicked = FALSE
    /\ last = [op |-> "none", at |-> Position_default, ch |-> "",
               before |-> [path |-> "None", rows |-> <<>>, modified |-> FALSE]]

\* A movement result becomes the next state; an overflow ends the process.
Moved(r) ==
    /\ editor' = (IF r.ok THEN r.ed ELSE editor)
    /\ panicked' = ~r.ok
    /\ UNCHANGED <<boundaries, last, app>>

KeyUp == ~panicked /\ Moved(move_up(editor, boundaries, 1))

KeyDown == ~panicked /\ Moved(move_down(editor, boundaries, 1))

KeyLeft == ~panicked /\ Moved(move_left(editor, boundaries, 1))

KeyRight == ~panicked /\ Moved(move_right(editor, boundaries, 1))

KeyI ==
    /\ ~panicked
    /\ editor.mode = "Normal"
    /\ editor' = [editor EXCEPT !.mode = "Insert"]
    /\ UNCHANGED <<boundaries, panicked, last, app>>

KeyEsc ==
    /\ ~panicked
    /\ editor.mode = "Insert"
    /\ editor' = [editor EXCEPT !.mode = "Normal"]
    /\ UNCHANGED <<boundaries, panicked, last, app>>

\* Document.insert at the cursor, then move_right(1).
insert_key(ed, b, ch) ==
    LET r == insert(ed.document, ed.position, ch)
    IN  IF r.ok THEN move_right([ed EXCEPT !.document = r.doc], b, 1)
        ELSE [ok |-> FALSE, ed |-> [ed EXCEPT !.document = r.doc]]

\* Document.delete at the cursor.
delete_key(ed) ==
    LET r == delete(ed.document, ed.position)
    IN  [ok |-> r.ok, ed |-> [ed EXCEPT !.document = r.doc]]

\* Nothing at the document start; otherwise move_left(1), then Document.delete
\* at the new cursor.
backspace_key(ed, b) ==
    IF ed.position.row = 0 /\ ed.position.column = 0 THEN [ok |-> TRUE, ed |-> ed]
    ELSE LET m == move_left(ed, b, 1)
         IN  IF m.ok THEN delete_key(m.ed) ELSE m

Edited(r) ==
    /\ editor' = r.ed
    /\ panicked' = ~r.ok
    /\ UNCHANGED <<boundaries, last, app>>

KeyChar ==
    /\ ~panicked
    /\ editor.mode = "Insert"
    /\ doc_chars(editor.document) < MaxChars
    /\ \E ch \in Chars : Edited(insert_key(editor, boundaries, ch))

KeyEnter ==
    /\ ~panicked
    /\ editor.mode = "Insert"
    /\ Len(editor.document.rows) < MaxRows
    /\ Edited(insert_key(editor, boundaries, NewLine))

KeyDelete ==
    /\ ~panicked
    /\ editor.mode = "Insert"
    /\ Edited(delete_key(editor))

KeyBackspace ==
    /\ ~panicked
    /\ editor.mode = "Insert"
    /\ Edited(backspace_key(editor, boundaries))

Next ==
    \/ KeyUp
    \/ KeyDown
    \/ KeyLeft
    \/ KeyRight
    \/ KeyI
    \/ KeyEsc
    \/ KeyChar
    \/ KeyEnter
    \/ KeyDelete
    \/ KeyBackspace

Spec == Init /\ [][Next]_vars

\* Movement alone, on any document.
NextMove ==
    \/ KeyUp
    \/ KeyDown
    \/ KeyLeft
    \/ KeyRight

SpecMove == Init /\ [][NextMove]_vars

\* Document operations alone, at any position inside the document.
ValidPositions(doc) ==
    {p \in [row : 0..(Len(doc.rows) - 1), column : 0..MaxChars,
            history : {[row |-> 0, column |-> 0]}] :
        p.column <= row_len(doc, p.row)}

Applied(op, at, ch, r) ==
    /\ editor' = [editor EXCEPT !.document = r.doc]
    /\ panicked' = ~r.ok
    /\ last' = [op |-> op, at |-> at, ch |-> ch, before |-> editor.document]
    /\ UNCHANGED <<boundaries, app>>

DocInsert ==
    /\ ~panicked
    /\ doc_chars(editor.document) < MaxChars
    /\ \E at \in ValidPositions(editor.document), ch \in Chars :
           Applied("insert", at, ch, insert(editor.document, at, ch))

DocInsertNewLine ==
    /\ ~panicked
    /\ Len(editor.document.rows) < MaxRows
    /\ \E at \in ValidPositions(editor.document) :
           Applied("insert", at, NewLine, insert(editor.document, at, NewLine))

DocDelete ==
    /\ ~panicked
    /\ \E at \in ValidPositions(editor.document) :
           Applied("delete", at, "", delete(editor.document, at))

NextDoc ==
    \/ DocInsert
    \/ DocInsertNewLine
    \/ DocDelete

\* The Document operations take no Boundaries: one viewport stands for all.
InitDoc ==
    /\ Init
    /\ boundaries = [width |-> MaxWidth, height |-> MaxHeight]

SpecDoc == InitDoc /\ [][NextDoc]_vars

\* --------------------------------------------------- modes, resize, save
\* 'o': a new empty row after the current row, the cursor down onto it.
open_below_key(ed, b) ==
    LET at == [ed.position EXCEPT
                   !.column = row_len(ed.document, ed.position.row)]
        r == insert(ed.document, at, NewLine)
    IN  IF r.ok THEN move_down([ed EXCEPT !.document = r.doc], b, 1)
        ELSE [ok |-> FALSE, ed |-> [ed EXCEPT !.document = r.doc]]

\* 'O': a new empty row before the current row, the cursor to its column 0.
open_above_key(ed, b) ==
    LET at == [ed.position EXCEPT !.column = 0]
        r == insert(ed.document, at, NewLine)
    IN  IF r.ok
        THEN move_left([ed EXCEPT !.document = r.doc], b, ed.position.column)
        ELSE [ok |-> FALSE, ed |-> [ed EXCEPT !.document = r.doc]]

Opened(r) ==
    /\ editor' = (IF r.ok THEN [r.ed EXCEPT !.mode = "Insert"] ELSE r.ed)
    /\ panicked' = ~r.ok
    /\ UNCHANGED <<boundaries, last, app>>

KeyO ==
    /\ ~panicked
    /\ editor.mode = "Normal"
    /\ Len(editor.document.rows) < MaxEventRows
    /\ Opened(open_below_key(editor, boundaries))

KeyShiftO ==
    /\ ~panicked
    /\ editor.mode = "Normal"
    /\ Len(editor.document.rows) < MaxEventRows
    /\ Opened(open_above_key(editor, boundaries))

\* A resize event outside the App loop: the terminal takes the new size and
\* the later moves take its text area.
Resize ==
    /\ ~panicked
    /\ \E size \in BoundariesSet :
           /\ size # app.size
           /\ app' = [app EXCEPT !.size = size]
           /\ boundaries' = text_area(size)
    /\ UNCHANGED <<editor, panicked, last>>

IoResults == {"Ok", "Err"}

\* Document.save: every row and a line terminator after it written to path;
\* the bytes written, or an I/O error that leaves the document as it was.
\* What a successful save does to modified is left open.
Document_save(doc, io) ==
    IF io = "Ok"
    THEN {[ok |-> TRUE, doc |-> [doc EXCEPT !.modified = m]] :
              m \in {doc.modified, FALSE}}
    ELSE {[ok |-> FALSE, doc |-> doc]}

StatusSaved == "Message: saved"

StatusNotSaved == "Message: Could not save the document"

\* Editor::save with the outcome r of Document.save.
save_mode_reset(ed, r) ==
    [ed EXCEPT !.document = [r.doc EXCEPT !.path = "Some"],
               !.status = IF r.ok THEN StatusSaved ELSE StatusNotSaved,
               !.mode = IF r.ok THEN ed.mode ELSE "Normal"]

save(ed, r) ==
    [ed EXCEPT !.document = [r.doc EXCEPT !.path = "Some"],
               !.status = IF r.ok THEN StatusSaved ELSE StatusNotSaved]

Save ==
    /\ ~panicked
    /\ \E io \in IoResults :
           \E r \in Document_save(editor.document, io) :
               editor' = save(editor, r)
    /\ UNCHANGED <<boundaries, panicked, last, app>>

\* Every event of the editor on the documents of at most MaxEventRows rows and
\* MaxEventChars chars.
SmallDocument(doc) ==
    /\ Len(doc.rows) <= MaxEventRows
    /\ doc_chars(doc) <= MaxEventChars

InitEvents == Init /\ SmallDocument(editor.document)

\* The keys that grow the document, kept to the small documents.
SmallKeyChar == KeyChar /\ SmallDocument(editor'.document)

SmallKeyEnter == KeyEnter /\ SmallDocument(editor'.document)

NextEvents ==
    \/ KeyUp
    \/ KeyDown
    \/ KeyLeft
    \/ KeyRight
    \/ KeyI
    \/ KeyEsc
    \/ SmallKeyChar
    \/ SmallKeyEnter
    \/ KeyDelete
    \/ KeyBackspace
    \/ KeyO
    \/ KeyShiftO
    \/ Resize
    \/ Save

SpecEvents == InitEvents /\ [][NextEvents]_vars

\* ------------------------------------------------ movement by any offset
\* A wrapped subtraction has left a coordinate beyond every document.
Wrapped(ed) ==
    \E v \in {ed.position.row, ed.position.column,
              ed.scroll_offset.row, ed.scroll_offset.column} :
        v >= UsizeModulus \div 2

\* The outcome of a movement operation: on an overflow either the panic of a
\* build with overflow checks or the wrapped result of a build without them.
MovedAny(r) ==
    /\ \/ /\ r.ok
          /\ editor' = r.ed
          /\ panicked' = FALSE
       \/ /\ ~r.ok
          /\ editor' = editor
          /\ panicked' = TRUE
       \/ /\ ~r.ok
          /\ editor' = r.ed
          /\ panicked' = FALSE
    /\ UNCHANGED <<boundaries, last, app>>

Offsets == 0..MaxOffset

MoveUp ==
    /\ ~panicked /\ ~Wrapped(editor)
    /\ \E offset \in Offsets : MovedAny(move_up(editor, boundaries, offset))

MoveDown ==
    /\ ~panicked /\ ~Wrapped(editor)
    /\ \E offset \in Offsets : MovedAny(move_down(editor, boundaries, offset))

MoveLeft ==
    /\ ~panicked /\ ~Wrapped(editor)
    /\ \E offset \in Offsets : MovedAny(move_left(editor, boundaries, offset))

MoveRight ==
    /\ ~panicked /\ ~Wrapped(editor)
    /\ \E offset \in Offsets : MovedAny(move_right(editor, boundaries, offset))

\* The four movement operations with any offset, between mode changes, typed
\* characters and saves, on the small documents.
NextMoveAny ==
    \/ MoveUp
    \/ MoveDown
    \/ MoveLeft
    \/ MoveRight
    \/ KeyI
    \/ KeyEsc
    \/ SmallKeyChar
    \/ Save

SpecMoveAny == InitEvents /\ [][NextMoveAny]_vars

\* The four movement operations alone, with any offset, on every document
\* within MaxRows and MaxChars.
NextMoveOffsets ==
    \/ MoveUp
    \/ MoveDown
    \/ MoveLeft
    \/ MoveRight

SpecMoveOffsets == Init /\ [][NextMoveOffsets]_vars

\* ------------------------------------------------------------------- App
\* run(): start_terminal, event_loop, end_terminal, each left at once by `?`
\* when a step fails.  Every terminal call succeeds or fails (IoResults).
Returned(a, result) == [a EXCEPT !.pc = "returned", !.result = result]

AppStep(a) ==
    /\ app' = a
    /\ UNCHANGED <<editor, boundaries, panicked, last>>

\* start_terminal, first step: enter the alternate screen.
StartTerminal ==
    /\ ~panicked
    /\ app.pc = "start_terminal"
    /\ \E io \in IoResults :
           AppStep(IF io = "Ok"
                   THEN [app EXCEPT !.pc = "enable_raw_mode",
                                    !.alternate_screen = TRUE]
                   ELSE Returned(app, "Err"))

\* start_terminal, second step: enable raw mode; then the event loop.
EnableRawMode ==
    /\ ~panicked
    /\ app.pc = "enable_raw_mode"
    /\ \E io \in IoResults :
           AppStep(IF io = "Ok"
                   THEN [app EXCEPT !.pc = "draw", !.raw_mode = TRUE]
                   ELSE Returned(app, "Err"))

\* Where the loop goes after a draw, after an event, after its exit test.
after_draw == "handle_event"

after_event == "check_message"

after_check_redraws_once(message) ==
    IF message = "Exit" THEN "end_terminal" ELSE "handle_event"

after_check(message) == IF message = "Exit" THEN "end_terminal" ELSE "draw"

\* The cursor cell of draw: two unchecked subtractions.
cursor_underflows(ed) ==
    \/ ed.position.column < ed.scroll_offset.column
    \/ ed.position.row < ed.scroll_offset.row

\* draw: the text area from the size the terminal reports, the rows from the
\* scroll offset on, the cursor.  An underflow of the cursor cell panics in a
\* build with overflow checks and draws a wrapped cell in one without.
Draw ==
    /\ ~panicked
    /\ app.pc = "draw"
    /\ \E io \in IoResults :
           IF io = "Ok"
           THEN /\ boundaries' = text_area(app.size)
                /\ \/ /\ app' = [app EXCEPT !.pc = after_draw, !.did = "draw",
                                            !.event = "none"]
                      /\ panicked' = FALSE
                   \/ /\ cursor_underflows(editor)
                      /\ app' = app
                      /\ panicked' = TRUE
                /\ UNCHANGED <<editor, last>>
           ELSE /\ app' = Returned(app, "Err")
                /\ UNCHANGED <<editor, boundaries, panicked, last>>

\* handle_event has received `event`; the handler has run to its end.
Handled(a, event) == [a EXCEPT !.pc = after_event, !.did = "event", !.event = event]

\* A movement key: the text area from the size the terminal reports, then the
\* movement; a failing size query is the handler's error.
MoveEvent(event, r) ==
    /\ ~panicked
    /\ \E io \in IoResults :
           IF io = "Ok"
           THEN /\ editor' = (IF r.ok THEN r.ed ELSE editor)
                /\ panicked' = ~r.ok
                /\ boundaries' = text_area(app.size)
                /\ app' = Handled(app, event)
                /\ last' = last
           ELSE /\ app' = Returned(Handled(app, event), "Err")
                /\ UNCHANGED <<editor, boundaries, panicked, last>>

EventUp ==
    /\ app.pc = "handle_event"
    /\ MoveEvent("Up", move_up(editor, text_area(app.size), 1))

EventDown ==
    /\ app.pc = "handle_event"
    /\ MoveEvent("Down", move_down(editor, text_area(app.size), 1))

EventLeft ==
    /\ app.pc = "handle_event"
    /\ MoveEvent("Left", move_left(editor, text_area(app.size), 1))

EventRight ==
    /\ app.pc = "handle_event"
    /\ MoveEvent("Right", move_right(editor, text_area(app.size), 1))

EventHome ==
    /\ app.pc = "handle_event"
    /\ MoveEvent("Home",
                 move_left(editor, text_area(app.size), editor.position.column))

EventEnd ==
    /\ app.pc = "handle_event"
    /\ MoveEvent("End",
                 move_right(editor, text_area(app.size),
                            saturating_sub(
                                saturating_sub(
                                    row_len(editor.document, editor.position.row),
                                    editor.position.column),
                                1)))

\* A key with the control modifier: 'q' asks for the exit, any other nothing.
ControlChars == {"q", "s"}

control_key_any_exits(message, ch) == "Exit"

control_key(message, ch) == IF ch = "q" THEN "Exit" ELSE message

EventControl ==
    /\ ~panicked
    /\ app.pc = "handle_event"
    /\ \E ch \in ControlChars :
           AppStep([Handled(app, "Ctrl+" \o ch) EXCEPT
                        !.message = control_key(app.message, ch)])

\* Any other key, and any event that is neither a key nor a resize.
EventOther ==
    /\ ~panicked
    /\ app.pc = "handle_event"
    /\ AppStep(Handled(app, "Other"))

\* Event::Resize(w, h): terminal.resize; the terminal reports (w, h) from now.
resize_ignored(a, size) == a

resize(a, size) == [a EXCEPT !.size = size]

EventResize ==
    /\ ~panicked
    /\ app.pc = "handle_event"
    /\ \E size \in BoundariesSet, io \in IoResults :
           LET a == [Handled(app, "Resize") EXCEPT !.resized = size]
           IN  AppStep(IF io = "Ok" THEN resize(a, size)
                       ELSE Returned(a, "Err"))

\* The test that ends an iteration of the loop.
CheckMessage ==
    /\ ~panicked
    /\ app.pc = "check_message"
    /\ AppStep([app EXCEPT !.pc = after_check(app.message)])

\* end_terminal, first step: disable raw mode.
EndTerminal ==
    /\ ~panicked
    /\ app.pc = "end_terminal"
    /\ \E io \in IoResults :
           LET a == [app EXCEPT !.tried_disable = TRUE]
           IN  AppStep(IF io = "Ok"
                       THEN [a EXCEPT !.pc = "leave_alternate_screen",
                                      !.raw_mode = FALSE]
                       ELSE Returned(a, "Err"))

\* end_terminal, second step: leave the alternate screen; run() returns.
LeaveAlternateScreen ==
    /\ ~panicked
    /\ app.pc = "leave_alternate_screen"
    /\ \E io \in IoResults :
           LET a == [app EXCEPT !.tried_leave = TRUE]
           IN  AppStep(IF io = "Ok"
                       THEN Returned([a EXCEPT !.alternate_screen = FALSE], "Ok")
                       ELSE Returned(a, "Err"))

NextApp ==
    \/ StartTerminal
    \/ EnableRawMode
    \/ Draw
    \/ EventUp
    \/ EventDown
    \/ EventLeft
    \/ EventRight
    \/ EventHome
    \/ EventEnd
    \/ EventControl
    \/ EventOther
    \/ EventResize
    \/ CheckMessage
    \/ EndTerminal
    \/ LeaveAlternateScreen

SpecApp == InitEvents /\ [][NextApp]_vars

\* Between the handling of an event and the return of run() the App awaits
\* nothing: the exit test and the two steps of end_terminal do run.
SpecAppFair ==
    /\ SpecApp
    /\ WF_vars(CheckMessage)
    /\ WF_vars(EndTerminal)
    /\ WF_vars(LeaveAlternateScreen)

\* ---------------------------------------------------------------- launch
\* main(): App::new, then run() on the App it returned.  Before App::new
\* there is no Editor: NoEditor stands for it (no open gives a pathless
\* document without rows).
NoEditor == [Editor_new([given |-> FALSE, exists |-> FALSE, lines |-> <<>>])
                EXCEPT !.document.rows = <<>>]

\* What the file system answers to Document::open: File::open fails; or the
\* reader yields `good` lines and then an error (a failed read, or bytes that
\* are not UTF-8); or every line is read.
OpenIo(file) ==
    {[open |-> "Ok", read |-> "Ok", good |-> Len(file.lines)],
     [open |-> "Err", read |-> "Ok", good |-> 0]}
    \cup {[open |-> "Ok", read |-> "Err", good |-> k] : k \in 0..Len(file.lines)}

\* Document::open returning the rows read so far when a line fails.
open_io_partial(file, io) ==
    IF file.given /\ file.exists
    THEN IF io.open = "Err"
         THEN [ok |-> FALSE, doc |-> NoEditor.document]
         ELSE [ok  |-> TRUE,
               doc |-> [path     |-> "Some",
                        rows     |-> [i \in 1..io.good |-> Row_from(file.lines[i])],
                        modified |-> FALSE]]
    ELSE [ok |-> TRUE, doc |-> open(file)]

\* Document::open with its failures: `?` on File::open and on each line
\* returns the error, and the rows pushed so far are dropped with it.
open_io(file, io) ==
    IF file.given /\ file.exists
    THEN IF io.open = "Err"
         THEN [ok |-> FALSE, doc |-> NoEditor.document]
         ELSE LET pushed == [i \in 1..io.good |-> Row_from(file.lines[i])]
              IN  IF io.read = "Err"
                  THEN [ok |-> FALSE, doc |-> NoEditor.document]
                  ELSE [ok  |-> TRUE,
                        doc |-> [path |-> "Some", rows |-> pushed,
                                 modified |-> FALSE]]
    ELSE [ok |-> TRUE, doc |-> open(file)]

\* Editor::new: the opened document, every other field at its default.
Editor_new_io(file, io) ==
    LET r == open_io(file, io)
    IN  [ok |-> r.ok,
         ed |-> IF r.ok THEN [Editor_new(file) EXCEPT !.document = r.doc]
                ELSE NoEditor]

\* Whether the file system let the open succeed.
open_failed(file, io) ==
    file.given /\ file.exists /\ (io.open = "Err" \/ io.read = "Err")

SmallFiles == {file \in Files : SmallDocument(open(file))}

\* App::new: Terminal::new, then Editor::new; main() returns the error of
\* either and calls run() only on success.  `last` records how the open went.
AppNew ==
    /\ app.pc = "new"
    /\ \E tio \in IoResults, file \in SmallFiles :
           \E io \in OpenIo(file) :
               LET r == Editor_new_io(file, io)
               IN  IF tio = "Err"
                   THEN /\ app' = Returned(app, "Err")
                        /\ UNCHANGED <<editor, last>>
                   ELSE /\ editor' = r.ed
                        /\ app' = IF r.ok THEN App_new(app.size)
                                  ELSE Returned(app, "Err")
                        /\ last' = [last EXCEPT !.op =
                                       IF open_failed(file, io)
                                       THEN "open failed" ELSE "opened"]
    /\ UNCHANGED <<boundaries, panicked>>

InitLaunch ==
    /\ editor = NoEditor
    /\ \E size \in BoundariesSet :
           /\ app = [App_new(size) EXCEPT !.pc = "new"]
           /\ boundaries = text_area(size)
    /\ panicked = FALSE
    /\ last = [op |-> "none", at |-> Position_default, ch |-> "",
               before |-> [path |-> "None", rows |-> <<>>, modified |-> FALSE]]

NextLaunch ==
    \/ AppNew
    \/ StartTerminal
    \/ EnableRawMode
    \/ Draw
    \/ EventUp
    \/ EventDown
    \/ EventLeft
    \/ EventRight
    \/ EventHome
    \/ EventEnd
    \/ EventControl
    \/ EventOther
    \/ EventResize
    \/ CheckMessage
    \/ EndTerminal
    \/ LeaveAlternateScreen

SpecLaunch == InitLaunch /\ [][NextLaunch]_vars

\* ------------------------------------------------ moves and raw edits
\* The documents of at most MaxRows rows and MaxEventChars chars.
TallDocument(doc) ==
    /\ Len(doc.rows) <= MaxRows
    /\ doc_chars(doc) <= MaxEventChars

\* Document.insert and Document.delete at the cursor, the cursor left where
\* it is, between arrow keys.
InsertAtCursor ==
    /\ ~panicked
    /\ \E ch \in Chars \cup {NewLine} :
           LET r == insert(editor.document, editor.position, ch)
           IN  /\ TallDocument(r.doc)
               /\ Edited([ok |-> r.ok, ed |-> [editor EXCEPT !.document = r.doc]])

DeleteAtCursor ==
    /\ ~panicked
    /\ LET r == delete(editor.document, editor.position)
       IN  Edited([ok |-> r.ok, ed |-> [editor EXCEPT !.document = r.doc]])

NextMoveEdit ==
    \/ KeyUp
    \/ KeyDown
    \/ KeyLeft
    \/ KeyRight
    \/ InsertAtCursor
    \/ DeleteAtCursor

InitMoveEdit == Init /\ TallDocument(editor.document)

SpecMoveEdit == InitMoveEdit /\ [][NextMoveEdit]_vars

\* --------------------------------------------------------------- painter
\* Row::render(start, end): end is clamped to the length of the content in
\* bytes, start to end, then the clusters are skipped and taken.
render(row, start, end) ==
    LET end1 == Min(end, byte_len(row.content))
        start1 == Min(start, end1)
    IN  graphemes_take(graphemes_skip(row.content, start1), end1 - start1)

\* The cursor cell handed to set_cursor, relative to the text area.
paint_cursor(ed) ==
    [x |-> saturating_sub(ed.position.column, ed.scroll_offset.column),
     y |-> saturating_sub(ed.position.row, ed.scroll_offset.row)]

\* The rows after the first scroll_offset.row, numbered from 0.
paint_skipped(ed) ==
    [i \in 1..saturating_sub(Len(ed.document.rows), ed.scroll_offset.row)
         |-> ed.document.rows[ed.scroll_offset.row + i]]

\* Painter::paint of the view crate: map_while stops at the first row whose
\* number is greater than the height.
paint_view(ed, area) ==
    LET skipped == paint_skipped(ed)
        n == Min(Len(skipped), area.height + 1)
    IN  [lines  |-> [i \in 1..n |->
                        render(skipped[i], ed.scroll_offset.column,
                               ed.scroll_offset.column + area.width)],
         cursor |-> paint_cursor(ed)]

\* Painter::paint of the core crate: filter keeps the rows whose number is
\* smaller than the height, each drawn on a line of its own.
paint_core(ed, area) ==
    LET skipped == paint_skipped(ed)
        n == Min(Len(skipped), area.height)
    IN  [lines  |-> [i \in 1..n |->
                        render(skipped[i], ed.scroll_offset.column,
                               ed.scroll_offset.column + area.width)],
         cursor |-> paint_cursor(ed)]

\* A paint leaves the editor alone; `last` records what went to the terminal.
Painted(snapshot) ==
    /\ last' = [op |-> "paint", lines |-> snapshot.lines,
                cursor |-> snapshot.cursor]
    /\ UNCHANGED <<editor, boundaries, panicked, app>>

PaintView ==
    /\ ~panicked
    /\ Painted(paint_view(editor, boundaries))

PaintCore ==
    /\ ~panicked
    /\ Painted(paint_core(editor, boundaries))

\* Arrow keys, each followed or not by a paint of either painter.
NextPaint ==
    \/ KeyUp
    \/ KeyDown
    \/ KeyLeft
    \/ KeyRight
    \/ PaintView
    \/ PaintCore

SpecPaint == Init /\ [][NextPaint]_vars

\* ---------------------------------------------------------------- claims
rows == editor.document.rows

position == editor.position

scroll_offset == editor.scroll_offset

\* C1: after any sequence of the four moves with offset 1, the cursor cell
\* lies inside the viewport: scroll_offset.row <= row < scroll_offset.row +
\* height and scroll_offset.column <= column < scroll_offset.column + width.
C1_CursorVisible ==
    /\ scroll_offset.row <= position.row
    /\ position.row < scroll_offset.row + boundaries.height
    /\ scroll_offset.column <= position.column
    /\ position.column < scroll_offset.column + boundaries.width

\* C2: in every state reached by arrow keys and Insert-mode edits the cursor
\* is inside the document: 0 <= row < rows.length, 0 <= column <= row_length(row).
C2_CursorInBounds ==
    /\ 0 <= position.row
    /\ position.row < Len(rows)
    /\ 0 <= position.column
    /\ position.column <= row_len(editor.document, position.row)

\* C3: the row sequence of the Document is never empty, whatever was opened
\* and whatever was inserted or deleted since.
C3_RowsNeverEmpty == Len(rows) >= 1

\* The number of clusters of a string, counted char by char: every char that
\* is not Grapheme_Extend opens a cluster, and so does an extending char that
\* opens the string.
RECURSIVE cluster_count(_)
cluster_count(s) ==
    IF s = <<>> THEN 0
    ELSE cluster_count(SubSeq(s, 1, Len(s) - 1))
             + (IF Len(s) = 1 \/ ~IsExtend(s[Len(s)]) THEN 1 ELSE 0)

\* C4: every row's cached length is the cluster count of its content, and
\* row_len(i) is that value for an in-bounds i and 0 for an out-of-bounds i.
C4_LengthCache ==
    \A i \in 0..(MaxRows + 1) :
        row_len(editor.document, i) =
            (IF i < Len(rows) THEN cluster_count(rows[i + 1].content) ELSE 0)

\* C4 witness: a mutating operation has completed on a document in which a
\* row's cluster count differs from its char count.
C4_Witness ==
    /\ last.op \in {"insert", "delete"}
    /\ ~panicked
    /\ rows # last.before.rows
    /\ \E i \in DOMAIN rows : rows[i].len >= 1 /\ rows[i].len < Len(rows[i].content)

\* C5: after a move_up or move_down that changes the row, the cursor column is
\* min(sticky_column, row_length(new row)).
C5_StickyOnVerticalMove ==
    [][((KeyUp \/ KeyDown) /\ position'.row # position.row)
          => position'.column =
                 (IF position'.history.column
                        <= cluster_count(rows'[position'.row + 1].content)
                  THEN position'.history.column
                  ELSE cluster_count(rows'[position'.row + 1].content))]_vars

\* C5 witness: the cursor stands on a row shorter than the sticky column,
\* which only a vertical move brings about.
C5_Witness ==
    /\ position.column < position.history.column
    /\ position.column = row_len(editor.document, position.row)
    /\ position.row > 0

\* The operation `last` records, for the claims about Document operations.
before_rows == last.before.rows

at_row == last.at.row + 1

OtherRowsKept ==
    /\ Len(rows) = Len(before_rows)
    /\ \A i \in DOMAIN rows : i # at_row => rows[i] = before_rows[i]

\* The inserted char stays a cluster of its own: it is no extending char, and
\* it is not put in front of an extending char that opens the row.
InsertedAlone ==
    /\ ~IsExtend(last.ch)
    /\ ~(/\ last.at.column = 0
         /\ before_rows[at_row].content # <<>>
         /\ IsExtend(before_rows[at_row].content[1]))

\* C6: Document.insert of a non-line-break character at a valid (r,c) raises
\* row_length(r) by exactly 1, sets modified, and leaves the number of rows
\* and every other row unchanged.  Stated for the insertions in which the
\* character joins no neighbouring cluster, where cluster counting itself
\* cannot change the count.
C6_InsertChar ==
    (last.op = "insert" /\ last.ch # NewLine /\ InsertedAlone)
        => /\ ~panicked
           /\ rows[at_row].len = before_rows[at_row].len + 1
           /\ editor.document.modified
           /\ OtherRowsKept

\* C7: Document.insert of a line break at (r,c) replaces row r by two adjacent
\* rows that hold clusters [0,c) and [c,length) of the original row; their
\* concatenation is the original content; the row count grows by 1, the rows
\* before r keep their index, the rows after r shift by one; modified is set.
C7_InsertNewLine ==
    (last.op = "insert" /\ last.ch = NewLine)
        => /\ ~panicked
           /\ editor.document.modified
           /\ Len(rows) = Len(before_rows) + 1
           /\ rows[at_row].content \o rows[at_row + 1].content
                  = before_rows[at_row].content
           /\ cluster_count(rows[at_row].content) = last.at.column
           /\ cluster_count(rows[at_row + 1].content)
                  = cluster_count(before_rows[at_row].content) - last.at.column
           /\ rows[at_row].len = last.at.column
           /\ rows[at_row + 1].len = before_rows[at_row].len - last.at.column
           /\ \A i \in 1..(at_row - 1) : rows[i] = before_rows[i]
           /\ \A i \in (at_row + 1)..Len(before_rows) : rows[i + 1] = before_rows[i]

\* C7 witness: a line break was inserted strictly inside a row whose clusters
\* are not all single chars.
C7_Witness ==
    /\ last.op = "insert"
    /\ last.ch = NewLine
    /\ ~panicked
    /\ last.at.column > 0
    /\ last.at.column < before_rows[at_row].len
    /\ before_rows[at_row].len < Len(before_rows[at_row].content)

\* The case of C8: delete at the end of a row that is not the last row.
MergeCase ==
    /\ last.op = "delete"
    /\ last.at.row < Len(before_rows) - 1
    /\ last.at.column = before_rows[at_row].len

MergeFrame ==
    /\ ~panicked
    /\ Len(rows) = Len(before_rows) - 1
    /\ \A i \in 1..(at_row - 1) : rows[i] = before_rows[i]
    /\ \A i \in (at_row + 1)..Len(rows) : rows[i] = before_rows[i + 1]

\* C8 as stated: the merge removes row r+1 and appends its content to row r,
\* the row count drops by 1, the merged row's cluster count is the sum of the
\* two original counts, and the other rows keep content and order.
C8_MergeSum ==
    MergeCase
        => /\ MergeFrame
           /\ rows[at_row].content
                  = before_rows[at_row].content \o before_rows[at_row + 1].content
           /\ rows[at_row].len
                  = before_rows[at_row].len + before_rows[at_row + 1].len

\* A cluster spans the junction of the two rows: row r is not empty and row
\* r+1 opens with an extending char.
JoinsAcross ==
    /\ before_rows[at_row].content # <<>>
    /\ before_rows[at_row + 1].content # <<>>
    /\ IsExtend(before_rows[at_row + 1].content[1])

\* C8 (amended): as C8, but the merged row's cluster count is that of the
\* concatenated content: the sum of the two original counts when no cluster
\* spans the junction, one less when row r+1 opens with an extending char
\* that joins the last cluster of a non-empty row r.
C8_MergeConcat ==
    MergeCase
        => /\ MergeFrame
           /\ rows[at_row].content
                  = before_rows[at_row].content \o before_rows[at_row + 1].content
           /\ rows[at_row].len = cluster_count(rows[at_row].content)
           /\ rows[at_row].len
                  = before_rows[at_row].len + before_rows[at_row + 1].len
                        - (IF JoinsAcross THEN 1 ELSE 0)

\* C8 witness: a merge of two non-empty rows has completed.
C8_Witness ==
    /\ MergeCase
    /\ ~panicked
    /\ before_rows[at_row].len > 0
    /\ before_rows[at_row + 1].len > 0

\* C9: Document.delete at (r,c) with c < row_length(r) removes exactly the
\* cluster at index c: row_length(r) drops by exactly 1, the row count and
\* every other row are unchanged.
C9_DeleteCluster ==
    (last.op = "delete" /\ last.at.column < before_rows[at_row].len)
        => /\ ~panicked
           /\ rows[at_row].len = before_rows[at_row].len - 1
           /\ rows[at_row].content
                  = graphemes_take(before_rows[at_row].content, last.at.column)
                    \o graphemes_skip(before_rows[at_row].content,
                                      last.at.column + 1)
           /\ OtherRowsKept

\* C10: Document.delete at the end of the last row, where neither a cluster
\* nor a line break follows, completes without failure and leaves the rows
\* unchanged.
C10_DeleteAtEnd ==
    (/\ last.op = "delete"
     /\ last.at.row = Len(before_rows) - 1
     /\ last.at.column = before_rows[at_row].len)
        => /\ ~panicked
           /\ rows = before_rows

\* C11: insertion and deletion index a row by cluster: Document.insert at
\* column c yields clusters[0..c) ++ [ch] ++ clusters[c..), Document.delete at
\* column c < length yields the row without clusters[c], for every c in
\* range, also when a cluster takes more than one byte, and neither fails.
C11_ClusterIndexed ==
    /\ (last.op = "insert" /\ last.ch # NewLine)
           => /\ ~panicked
              /\ rows[at_row].content
                     = graphemes_take(before_rows[at_row].content, last.at.column)
                       \o <<last.ch>>
                       \o graphemes_skip(before_rows[at_row].content,
                                         last.at.column)
    /\ (last.op = "delete" /\ last.at.column < before_rows[at_row].len)
           => /\ ~panicked
              /\ rows[at_row].content
                     = graphemes_take(before_rows[at_row].content, last.at.column)
                       \o graphemes_skip(before_rows[at_row].content,
                                         last.at.column + 1)

\* C12: move_right(1) with the cursor at column == row_len(row) on a row that
\* is not the last one moves the cursor to (row + 1, 0), sets the sticky
\* column and scroll_offset.column to 0, and advances scroll_offset.row by one
\* exactly when the old row was the bottom visible row of the viewport.
AtEndOfInnerRow ==
    /\ position.column = row_len(editor.document, position.row)
    /\ position.row + 1 < Len(rows)

WrappedRight ==
    /\ position'.row = position.row + 1
    /\ position'.column = 0
    /\ position'.history.column = 0
    /\ scroll_offset'.column = 0
    /\ scroll_offset'.row
           = IF position.row = scroll_offset.row + boundaries.height - 1
             THEN scroll_offset.row + 1
             ELSE scroll_offset.row

C12_WrapRight == [][(KeyRight /\ AtEndOfInnerRow) => WrappedRight]_vars

\* The cursor stands at the head of a row below the first one with the sticky
\* column reset, on the bottom line of a viewport that has scrolled down.
C12_Witness ==
    /\ ~panicked
    /\ position.row >= 1
    /\ position.column = 0
    /\ position.history.column = 0
    /\ scroll_offset.column = 0
    /\ scroll_offset.row >= 1
    /\ position.row = scroll_offset.row + boundaries.height - 1
    /\ rows[position.row].len > 0

\* C13: in Insert mode a printable-character key at cursor (r,c), that is
\* Document.insert at the cursor followed by move_right(1), leaves row r with
\* the character at cluster index c and the cursor at (r, c+1) with sticky
\* column c+1.  Stated for a cursor inside the row and a character that joins
\* no neighbouring cluster.
PressChar(ch) ==
    /\ ~panicked
    /\ editor.mode = "Insert"
    /\ doc_chars(editor.document) < MaxChars
    /\ Edited(insert_key(editor, boundaries, ch))

TypedAlone(ch) ==
    /\ position.row < Len(rows)
    /\ position.column <= row_len(editor.document, position.row)
    /\ ~IsExtend(ch)
    /\ ~(/\ position.column = 0
         /\ rows[position.row + 1].content # <<>>
         /\ IsExtend(rows[position.row + 1].content[1]))

C13_CharKey ==
    [][\A ch \in Chars :
          (PressChar(ch) /\ TypedAlone(ch))
              => /\ ~panicked'
                 /\ grapheme(rows'[position.row + 1].content, position.column)
                        = <<ch>>
                 /\ position'.row = position.row
                 /\ position'.column = position.column + 1
                 /\ position'.history.column = position.column + 1]_vars

\* C14: the mode is Normal initially; it becomes Insert only on 'i', 'o' or
\* 'O' received in Normal and Normal only on Escape received in Insert; no
\* other event (movement, edit, resize, save) changes it; and 'i' changes
\* neither the document nor the cursor.
ModeStep ==
    /\ (editor'.mode # editor.mode)
           => \/ /\ editor.mode = "Normal"
                 /\ editor'.mode = "Insert"
                 /\ KeyI \/ KeyO \/ KeyShiftO
              \/ /\ editor.mode = "Insert"
                 /\ editor'.mode = "Normal"
                 /\ KeyEsc
    /\ KeyI => /\ editor'.mode = "Insert"
               /\ editor'.document = editor.document
               /\ position' = position
               /\ scroll_offset' = scroll_offset
    /\ ((KeyO \/ KeyShiftO) /\ ~panicked') => editor'.mode = "Insert"
    /\ KeyEsc => editor'.mode = "Normal"

C14_ModeMachine == (editor.mode = "Normal") /\ [][ModeStep]_vars

\* Insert mode has been entered and has outlasted an edit, a movement back to
\* the row start and a failed save.
C14_Witness ==
    /\ ~panicked
    /\ editor.mode = "Insert"
    /\ editor.document.modified
    /\ editor.status = StatusNotSaved
    /\ Len(rows) = MaxEventRows
    /\ position.row = 1
    /\ position.column = 0

\* C15: movement has no effect on the document: each of move_up, move_down,
\* move_left and move_right, for any boundaries and any offset, leaves
\* document.rows, document.modified, document.path, mode and status unchanged.
MoveStep == MoveUp \/ MoveDown \/ MoveLeft \/ MoveRight

DocumentModeStatusKept ==
    /\ editor'.document.rows = editor.document.rows
    /\ editor'.document.modified = editor.document.modified
    /\ editor'.document.path = editor.document.path
    /\ editor'.mode = editor.mode
    /\ editor'.status = editor.status

C15_MovementFrame == [][DocumentModeStatusKept \/ ~MoveStep]_vars

\* A move_right by two has carried the cursor of a modified document, in
\* Insert mode and with a status message up, from column 0 to column 2.
C15_Witness ==
    /\ ~panicked
    /\ position.column = 2
    /\ position.history.column = 2
    /\ position.row < Len(rows)
    /\ rows[position.row + 1].len = 1
    /\ editor.document.modified
    /\ editor.mode = "Insert"
    /\ editor.status = StatusNotSaved

\* C16: a Ctrl+q key event received in any editor state ends the session:
\* once it is handled the loop draws no more and awaits no further event, and
\* the terminal teardown runs; no other key event, another control chord
\* included, ends the session.
C16_QuitSafe ==
    /\ (app.event = "Ctrl+q") => (app.message = "Exit")
    /\ (app.message = "Exit")
           => /\ app.event = "Ctrl+q"
              /\ app.pc \in {"check_message", "end_terminal",
                             "leave_alternate_screen", "returned"}
              /\ (app.pc = "returned") => app.tried_disable
    /\ (app.pc \in {"end_terminal", "leave_alternate_screen"}
            \/ app.tried_disable
            \/ app.result = "Ok")
           => (app.message = "Exit")

C16_Quit ==
    /\ []C16_QuitSafe
    /\ (app.message = "Exit") ~> (app.pc = "returned" /\ app.tried_disable)

\* The session has ended by Ctrl+q after the cursor has been moved, and both
\* teardown steps have succeeded.
C16_Witness ==
    /\ app.pc = "returned"
    /\ app.result = "Ok"
    /\ app.event = "Ctrl+q"
    /\ ~app.raw_mode
    /\ ~app.alternate_screen
    /\ position.row = 1
    /\ position.column = 1

\* C17: terminal teardown is attempted on every exit path: once start_terminal
\* has begun (the alternate screen entered, raw mode enabled or not), every
\* return of run(), by the quit, by an error of draw, by an error of the event
\* handling or by an error of the second setup step, comes after an attempt
\* to disable raw mode and to leave the alternate screen.
TerminalStarted ==
    \/ app.alternate_screen
    \/ app.raw_mode
    \/ app.tried_disable
    \/ app.tried_leave

C17_TeardownAttempted ==
    (app.pc = "returned" /\ TerminalStarted)
        => (app.tried_disable /\ app.tried_leave)

\* C18: event processing strictly alternates with redraw: the loop starts with
\* a draw, and each iteration handles exactly one event, to its end, before
\* the next draw and before the next event is awaited.
EventStep ==
    \/ EventUp
    \/ EventDown
    \/ EventLeft
    \/ EventRight
    \/ EventHome
    \/ EventEnd
    \/ EventControl
    \/ EventOther
    \/ EventResize

C18_Alternation ==
    [][/\ (app.did = "draw" /\ app'.did = "event") \/ ~EventStep
       /\ Draw => app.did \in {"none", "event"}
       /\ (Draw /\ app'.pc # "returned" /\ ~panicked') => app'.did = "draw"
       /\ CheckMessage => (app.did = "event" /\ app'.did = "event")]_vars

\* The loop is about to draw for the third time, after a Down and a Right
\* that have each been handled between two draws.
C18_Witness ==
    /\ ~panicked
    /\ app.pc = "draw"
    /\ app.did = "event"
    /\ app.event = "Right"
    /\ position.row = 1
    /\ position.column = 1

\* C19: after a Resize(w,h) event has been handled, every later movement and
\* every later draw takes the width and height of its viewport from (w,h); no
\* movement takes them from before the most recent resize.
MoveEvents == {"Up", "Down", "Left", "Right", "Home", "End"}

GeometryJustUsed ==
    \/ app.pc = "handle_event" /\ app.did = "draw"
    \/ app.pc = "check_message" /\ app.event \in MoveEvents

C19_GeometryAfterResize ==
    (app.resized # NoSize /\ GeometryJustUsed)
        => boundaries = text_area(app.resized)

\* A movement has been handled, with the text area of the latest of the resize
\* events, after the viewport has changed and the cursor has left the origin.
C19_Witness ==
    /\ ~panicked
    /\ app.resized # NoSize
    /\ app.pc = "check_message"
    /\ app.event = "Up"
    /\ boundaries = text_area(app.resized)
    /\ boundaries = [width |-> 1, height |-> 1]
    /\ scroll_offset.column = 1

\* C20: a failing save is recovered locally: when Document.save returns an
\* I/O error, Editor.save sets status to a Message, requests no exit, and
\* leaves the rows, the modified flag, the cursor position, the scroll offset
\* and the mode exactly as they were.
SaveFails == editor'.status = StatusNotSaved /\ Save

C20_SaveFailure ==
    [][SaveFails => /\ editor'.status # "Exit"
                    /\ editor'.status # "None"
                    /\ app'.message = app.message
                    /\ ~panicked'
                    /\ rows' = rows
                    /\ editor'.document.modified = editor.document.modified
                    /\ position' = position
                    /\ scroll_offset' = scroll_offset
                    /\ editor'.mode = editor.mode]_vars

\* A save of a modified document with no path has failed in Insert mode, the
\* cursor behind the one typed cluster.
C20_Witness ==
    /\ ~panicked
    /\ editor.status = StatusNotSaved
    /\ editor.document.modified
    /\ editor.document.path = "Some"
    /\ editor.mode = "Insert"
    /\ Len(rows) = 1
    /\ rows[1].len = 1
    /\ position.row = 0
    /\ position.column = 1


\* C21: when Document::open fails (File::open, a read or a decoding error on
\* any line) there is no document, not even a partial one, App::new has
\* failed, the terminal was never put into the alternate screen or raw mode
\* and no event was read or drawn.
C21_OpenFailureFatal ==
    (last.op = "open failed") =>
        /\ editor = NoEditor
        /\ app.pc = "returned"
        /\ app.result = "Err"
        /\ ~app.alternate_screen
        /\ ~app.raw_mode
        /\ app.event = "none"
        /\ app.did = "none"
        /\ ~app.tried_disable
        /\ ~app.tried_leave

C21_Witness == last.op = "open failed" /\ app.pc = "returned"

\* The cursor and scroll invariants: the cursor on a row of the document, at
\* most at its end, and inside the viewport on both axes.
CursorAndScrollValid ==
    /\ position.row < Len(rows)
    /\ position.column <= row_len(editor.document, position.row)
    /\ scroll_offset.row <= position.row
    /\ position.row < scroll_offset.row + boundaries.height
    /\ scroll_offset.column <= position.column
    /\ position.column < scroll_offset.column + boundaries.width

MoveAnyStep == MoveUp \/ MoveDown \/ MoveLeft \/ MoveRight

\* The operation has returned, no coordinate went below zero, and the cursor
\* is on a row of the document, at most at its end.
Clamped ==
    /\ ~panicked
    /\ ~Wrapped(editor)
    /\ position.row < Len(rows)
    /\ position.column <= row_len(editor.document, position.row)

\* C22: from a state that satisfies the cursor and scroll invariants, each of
\* move_up, move_down, move_left, move_right with any offset >= 0 completes
\* without arithmetic underflow or overflow and leaves 0 <= row < rows.length
\* and column <= row_length(row); a move_up never ends below row 0.
C22_Clamping == [][~CursorAndScrollValid \/ Clamped' \/ ~MoveAnyStep]_vars

\* The event just handled, without an I/O error or a panic, is `event`.
HandledEvent(event) ==
    /\ app'.pc = after_event
    /\ app'.event = event
    /\ app.pc = "handle_event"
    /\ ~panicked'

\* The cursor is on a row of the document, at most at its end.
OnRow ==
    /\ position.row < Len(rows)
    /\ position.column <= row_len(editor.document, position.row)

EndReached ==
    /\ position'.row = position.row
    /\ position'.column = row_len(editor.document, position.row)
    /\ position'.history.column = position'.column
    /\ scroll_offset'.column <= position'.column
    /\ position'.column < scroll_offset'.column + boundaries'.width
    /\ (position.column = row_len(editor.document, position.row)
            => editor' = editor)

\* C23: an End key on any row leaves the row unchanged, the column at the
\* length of the row, the sticky column equal to the column and the cursor
\* horizontally inside the viewport; at the line end it changes nothing.
C23_End == [][(HandledEvent("End") /\ OnRow) => EndReached]_vars

HomeReached ==
    /\ position'.row = position.row
    /\ position'.column = 0
    /\ position'.history.column = 0
    /\ scroll_offset'.column = 0
    /\ scroll_offset'.row = scroll_offset.row
    /\ (position.column = 0 => /\ rows' = rows
                                /\ scroll_offset' = scroll_offset)

\* C24: a Home key on any row leaves the row unchanged and the column, the
\* sticky column and scroll_offset.column at 0; at column 0 it changes
\* nothing: no wrap to the previous row, scroll_offset.row as it was.
C24_Home == [][HandledEvent("Home") => HomeReached]_vars

AtHeadOfLowerRow ==
    /\ position.column = 0
    /\ position.row > 0
    /\ CursorAndScrollValid

WrappedLeft ==
    /\ position'.row = position.row - 1
    /\ position'.column = row_len(editor.document, position.row - 1)
    /\ position'.history.column = position'.column
    /\ scroll_offset'.row
           = IF position.row = scroll_offset.row
             THEN scroll_offset.row - 1
             ELSE scroll_offset.row
    /\ scroll_offset'.column <= position'.column
    /\ position'.column < scroll_offset'.column + boundaries.width

\* C25: move_left(1) from (r,0) with r > 0 moves the cursor to
\* (r-1, row_length(r-1)), sets the sticky column to that column, lowers
\* scroll_offset.row by one exactly when r was the top visible row, and
\* returns with scroll_offset.column <= column < scroll_offset.column + width,
\* also when row r-1 is longer than the viewport is wide.
C25_WrapLeft == [][(KeyLeft /\ AtHeadOfLowerRow) => WrappedLeft]_vars

InsideRow ==
    /\ position.column > 0
    /\ CursorAndScrollValid

SteppedLeft ==
    /\ position'.row = position.row
    /\ position'.column = position.column - 1
    /\ position'.history.column = position'.column
    /\ scroll_offset'.row = scroll_offset.row
    /\ (position'.column >= scroll_offset.column
            => scroll_offset'.column = scroll_offset.column)
    /\ scroll_offset'.column <= position'.column
    /\ position'.column < scroll_offset'.column + boundaries.width

\* C26: move_left(1) at a column > 0 decreases the column by 1, sets the
\* sticky column to the new column, leaves the row and scroll_offset.row
\* unchanged, and when the new column falls left of scroll_offset.column it
\* moves scroll_offset.column so that
\* scroll_offset.column <= column < scroll_offset.column + width on return.
C26_StepLeft == [][(KeyLeft /\ InsideRow) => SteppedLeft]_vars

\* What move_down(offset) is to do to the cursor row and the vertical scroll.
MovedDownBy(offset) ==
    IF position.row + offset < Len(rows)
    THEN /\ position'.row = position.row + offset
         /\ scroll_offset'.row
                = IF position.row
                       >= scroll_offset.row + boundaries.height - offset
                  THEN scroll_offset.row + offset
                  ELSE scroll_offset.row
    ELSE /\ position' = position
         /\ scroll_offset' = scroll_offset

\* C27: move_down(offset) moves only if row + offset < rows.length, and
\* otherwise leaves cursor, sticky column and both scroll offsets unchanged;
\* when it moves, row increases by exactly offset and scroll_offset.row
\* increases by offset exactly when the old row satisfied
\* row >= scroll_offset.row + height - offset.
C27_MoveDown ==
    [][MoveDown => /\ ~panicked'
                   /\ \E offset \in Offsets : MovedDownBy(offset)]_vars

EnterDone ==
    /\ ~panicked'
    /\ position'.row = position.row + 1
    /\ position'.column = 0
    /\ position'.history.column = 0
    /\ scroll_offset'.column = 0
    /\ scroll_offset'.row <= position'.row
    /\ position'.row < scroll_offset'.row + boundaries.height

\* The cursor row is inside the vertical range of the viewport.
RowVisible ==
    /\ scroll_offset.row <= position.row
    /\ position.row < scroll_offset.row + boundaries.height

ClusterBeforeRemoved ==
    LET r == position.row + 1
        c == position.column
    IN  /\ ~panicked'
        /\ Len(rows') = Len(rows)
        /\ \A i \in DOMAIN rows : i # r => rows'[i] = rows[i]
        /\ rows'[r].content = graphemes_take(rows[r].content, c - 1)
                                \o graphemes_skip(rows[r].content, c)
        /\ position'.row = position.row
        /\ position'.column = c - 1

\* Rows r-1 and r became one row and the cursor stands where r-1 ended.
LineBreakBeforeRemoved ==
    LET r == position.row + 1
    IN  /\ ~panicked'
        /\ Len(rows') = Len(rows) - 1
        /\ \A i \in 1..(r - 2) : rows'[i] = rows[i]
        /\ \A i \in r..Len(rows') : rows'[i] = rows[i + 1]
        /\ rows'[r - 1].content = rows[r - 1].content \o rows[r].content
        /\ position'.row = position.row - 1
        /\ position'.column = rows[r - 1].len

BackspaceDone ==
    IF position.column > 0 THEN ClusterBeforeRemoved
    ELSE IF position.row > 0 THEN LineBreakBeforeRemoved
    ELSE /\ ~panicked'
         /\ rows' = rows
         /\ position' = position

\* C29: Backspace, move_left(1) followed by Document.delete at the new
\* cursor, removes exactly the element before the old cursor (r,c): for c > 0
\* the cluster at index c-1 of row r, leaving the cursor at (r, c-1); for
\* c = 0 and r > 0 the line break between rows r-1 and r, merging them and
\* leaving the cursor at (r-1, old row_length(r-1)); at (0,0) it changes
\* neither the document nor the cursor.
C29_Backspace ==
    [][\/ editor.mode # "Insert"
       \/ ~OnRow
       \/ BackspaceDone
       \/ ~KeyBackspace]_vars

\* C30: in every state the painter draws, the state right after a Resize
\* event that shrinks the viewport and the states after each following arrow
\* key included, the cursor cell lies inside the viewport rectangle of the
\* current size: scroll_offset <= cursor < scroll_offset + boundaries on both
\* axes.
C30_VisibleWhenDrawn ==
    (app.pc = "draw" /\ ~panicked)
        => LET b == text_area(app.size)
           IN  /\ scroll_offset.row <= position.row
               /\ position.row < scroll_offset.row + b.height
               /\ scroll_offset.column <= position.column
               /\ position.column < scroll_offset.column + b.width

\* The rows scroll_offset.row .. min(scroll_offset.row + h, rows.length) - 1,
\* each reduced to its clusters [scroll_offset.column, scroll_offset.column + w).
VisibleRows ==
    LET first == scroll_offset.row
        n == saturating_sub(Min(first + boundaries.height, Len(rows)), first)
    IN  [i \in 1..n |->
            graphemes_take(
                graphemes_skip(rows[first + i].content, scroll_offset.column),
                boundaries.width)]

PaintStep == PaintView \/ PaintCore

\* C31: the snapshot painted for a text area of height h and width w holds
\* exactly the rows scroll_offset.row .. min(scroll_offset.row + h,
\* rows.length) - 1, in order and never more than h, each reduced to its
\* clusters [scroll_offset.column, scroll_offset.column + w), and the cursor's
\* screen position is (column - scroll_offset.column, row - scroll_offset.row).
C31_Snapshot ==
    [][PaintStep => /\ last'.lines = VisibleRows
                    /\ Len(last'.lines) <= boundaries.height
                    /\ last'.cursor.x = position.column - scroll_offset.column
                    /\ last'.cursor.y = position.row - scroll_offset.row]_vars

\* The cursor after move_down(1) followed by move_up(1).
DownThenUp ==
    move_up(move_down(editor, boundaries, 1).ed, boundaries, 1).ed.position

ReturnsFromEveryRow ==
    /\ DownThenUp.row = position.row
    /\ DownThenUp.column = position.column

ReturnsFromInnerRow ==
    (position.row + 1 < Len(rows)) => ReturnsFromEveryRow

\* A vertical move keeps the sticky column, and the column is the sticky
\* column on every row that is long enough for it.
StickyKept ==
    /\ position'.history.column = position.history.column
    /\ (row_len(editor.document, position'.row) >= position.history.column
            => position'.column = position.history.column)

\* C32: move_up and move_down never modify the sticky column, so after any
\* sequence of vertical moves that ends on a row of length >= sticky column
\* the column equals the sticky column; and move_down(1) followed by
\* move_up(1) from row r returns the cursor to the same (row, column).
C32_StickyPreserved ==
    /\ []ReturnsFromEveryRow
    /\ [][StickyKept \/ ~(KeyUp \/ KeyDown)]_vars

\* C32, amended: as C32, but move_down(1) followed by move_up(1) returns the
\* cursor to the same (row, column) from every row r that is not the last
\* row; on the last row of a document of two or more rows move_down(1) does
\* nothing and move_up(1) leaves the cursor on row r-1.
C32_StickyPreservedInner ==
    /\ []ReturnsFromInnerRow
    /\ [][StickyKept \/ ~(KeyUp \/ KeyDown)]_vars

\* The cursor has come down through a shorter row onto a row that is long
\* enough, and stands on its sticky column again.
C32_Witness ==
    /\ position.row = 2
    /\ position.column = 1
    /\ position.history.column = 1
    /\ row_len(editor.document, 1) = 0
    /\ row_len(editor.document, 0) >= 1

\* C33: with a fixed height > 0, from the initial state and after any
\* sequence of the four moves with offset 1 and of Document.insert and
\* Document.delete at the cursor, scroll_offset.row <= row <
\* scroll_offset.row + height: the vertical scroll offset never passes the
\* cursor row and never lags more than height - 1 rows behind it.
C33_RowVisible ==
    /\ scroll_offset.row <= position.row
    /\ position.row < scroll_offset.row + boundaries.height

\* The viewport has scrolled down with the cursor in a document that an edit
\* at the cursor has changed.
C33_Witness ==
    /\ ~panicked
    /\ editor.document.modified
    /\ scroll_offset.row > 0
    /\ position.row = scroll_offset.row + boundaries.height - 1
    /\ position.row = Len(rows) - 1

\* Document.insert of ch at `at` followed by Document.delete at `at` gives
\* the rows back, with the modified flag set.
RoundTrip(doc, at, ch) ==
    LET inserted == insert(doc, at, ch)
        deleted == delete(inserted.doc, at)
    IN  /\ inserted.ok
        /\ deleted.ok
        /\ deleted.doc.rows = doc.rows
        /\ deleted.doc.modified

\* C34: for every document and every valid position (r,c) with
\* c <= row_length(r), Document.insert(position, ch) followed by
\* Document.delete(position) restores the row sequence exactly (number of
\* rows, content and cached length of every row), for a printable character
\* and for a line break; only the modified flag differs.
C34_RoundTrip ==
    ~panicked =>
        \A at \in ValidPositions(editor.document) :
            \A ch \in Chars \cup {NewLine} :
                RoundTrip(editor.document, at, ch)

\* C35: a move at an edge of the document changes nothing.  In every state
\* reached by arrow keys and edits, move_up on row 0, move_down(1) on the
\* last row, move_left(1) at row 0 column 0 and move_right(1) at the end of
\* the last row each return an editor whose row, column, sticky column and
\* both scroll offsets are the ones it was given.
NoOp(r) ==
    /\ r.ok
    /\ r.ed.position.row = editor.position.row
    /\ r.ed.position.column = editor.position.column
    /\ r.ed.position.history.column = editor.position.history.column
    /\ r.ed.scroll_offset.row = editor.scroll_offset.row
    /\ r.ed.scroll_offset.column = editor.scroll_offset.column

OnLastRow == editor.position.row + 1 >= Len(editor.document.rows)

AtEndOfLastRow ==
    /\ OnLastRow
    /\ editor.position.column = row_len(editor.document, editor.position.row)

C35_EdgeNoOps ==
    ~panicked =>
        /\ editor.position.row = 0 => NoOp(move_up(editor, boundaries, 1))
        /\ OnLastRow => NoOp(move_down(editor, boundaries, 1))
        /\ (editor.position.row = 0 /\ editor.position.column = 0)
               => NoOp(move_left(editor, boundaries, 1))
        /\ AtEndOfLastRow => NoOp(move_right(editor, boundaries, 1))

C35_Witness ==
    /\ ~panicked
    /\ AtEndOfLastRow
    /\ editor.position.column > 0
    /\ editor.scroll_offset.row > 0
    /\ editor.position.row = editor.scroll_offset.row + boundaries.height - 1
    /\ editor.document.modified

====
